---- MODULE Spec2Model ----
(***************************************************************************)
(* Model of src/index.ts: the review lead-time report.                     *)
(*                                                                         *)
(* main() pages through the search results, then for each pull request    *)
(* issues three requests together, awaits all of them, derives the        *)
(* record of the pull request, prints a line for a slow one and appends   *)
(* the record; at the end it filters the records and prints the summary.  *)
(* main().catch(console.error) logs a rejection.                          *)
(*                                                                         *)
(* Timestamps are milliseconds since the epoch, as Date.getTime() returns  *)
(* them. A missing string is Undef, the number NaN is NaN. Strings that    *)
(* the code inspects (titles) are sequences of one-character strings; the  *)
(* empty string is <<>>.                                                   *)
(***************************************************************************)
EXTENDS Integers, Sequences, FiniteSets, TLC

VARIABLES pc, pulls, idx, inflight, resp, rejection, locals, results,
          output, errors, exitCode, arg, shown

vars == <<pc, pulls, idx, inflight, resp, rejection, locals, results,
          output, errors, exitCode, arg, shown>>

\* ---------------------------------------------------------------- values

\* undefined: an absent property, the result of find() without a match, element
\* [0] of an empty array. Timestamps are >= 0, so -1 is none of them.
Undef == -1

\* The number NaN (getTime() of an invalid Date, and the literal at line 107).
\* No lead time of the model is this small.
NaN == -999999999

\* ------------------------------------------------------------ bounds

\* Most items (review comments + reviews + timeline events) of the pull request
\* of SpecEnrich.
MaxItems == 3
\* Most pull requests the search returns.
MaxPulls == 2
\* Largest minute value handed to minToTimeString in SpecFmt.
MaxMinutes == 1500

\* ------------------------------------------------------------ helpers

Range(s) == {s[i] : i \in DOMAIN s}

SetMin(S) == CHOOSE x \in S : \A y \in S : x <= y

\* Sequences over S of length at most n.
SeqUpTo(S, n) == UNION {[1..k -> S] : k \in 0..n}

\* mathjs round(x) for x = n / d, d > 0: to the nearest integer, a tie away
\* from zero.
round(n, d) ==
    IF n >= 0 THEN (2 * n + d) \div (2 * d)
    ELSE 0 - ((2 * (0 - n) + d) \div (2 * d))

\* JavaScript's < and > on numbers: false when either side is NaN.
Lt(a, b) == a # NaN /\ b # NaN /\ a < b
Gt(a, b) == a # NaN /\ b # NaN /\ a > b

\* new Date(s ?? '').getTime(), new Date(d).getTime(): NaN for a missing string,
\* for undefined and for an invalid Date.
getTime(s) == IF s = Undef \/ s = NaN THEN NaN ELSE s

\* ------------------------------------------------------- time utilities

getLeadTimeMinutes(from, to) ==
    IF from = NaN \/ to = NaN THEN NaN ELSE round(to - from, 60000)

\* The text minToTimeString builds: the unit suffix and the number before it,
\* in tenths for toFixed(1) (ties of the decimal expansion taken upward; the
\* binary value decides them in the program) and whole for round(min).
NoText == [unit |-> "none", value |-> 0]

minToTimeStringDaysFrom24(min) ==
    IF Gt(min, 60)
    THEN IF min >= 60 * 24
         THEN [unit |-> "days", value |-> round(min * 10, 60 * 24)]
         ELSE [unit |-> "hours", value |-> round(min * 10, 60)]
    ELSE [unit |-> "minutes", value |-> IF min = NaN THEN NaN ELSE round(min, 1)]

minToTimeString(min) ==
    IF Gt(min, 60)
    THEN IF min > 60 * 24
         THEN [unit |-> "days", value |-> round(min * 10, 60 * 24)]
         ELSE [unit |-> "hours", value |-> round(min * 10, 60)]
    ELSE [unit |-> "minutes", value |-> IF min = NaN THEN NaN ELSE round(min, 1)]

\* ------------------------------------------------------------- strings

\* String.prototype.toLowerCase on one character.
UpperToLower ==
    ("A" :> "a") @@ ("B" :> "b") @@ ("C" :> "c") @@ ("D" :> "d") @@ ("E" :> "e") @@
    ("F" :> "f") @@ ("G" :> "g") @@ ("H" :> "h") @@ ("I" :> "i") @@ ("J" :> "j") @@
    ("K" :> "k") @@ ("L" :> "l") @@ ("M" :> "m") @@ ("N" :> "n") @@ ("O" :> "o") @@
    ("P" :> "p") @@ ("Q" :> "q") @@ ("R" :> "r") @@ ("S" :> "s") @@ ("T" :> "t") @@
    ("U" :> "u") @@ ("V" :> "v") @@ ("W" :> "w") @@ ("X" :> "x") @@ ("Y" :> "y") @@
    ("Z" :> "z")

toLowerCase(str) ==
    [i \in 1..Len(str) |->
        IF str[i] \in DOMAIN UpperToLower THEN UpperToLower[str[i]] ELSE str[i]]

startsWith(str, prefix) ==
    /\ Len(str) >= Len(prefix)
    /\ \A i \in 1..Len(prefix) : str[i] = prefix[i]

\* 'release', the prefix of line 131.
ReleasePrefix == <<"r", "e", "l", "e", "a", "s", "e">>

\* The label of line 133, whose records are left out of the statistics
\* (written in Latin letters here).
ExclusionLabel == "anken"

\* dayjs(t).locale(ja).format('YY/MM/DD(dd)') and ...format('YY/MM/DD(dd) HH:mm'):
\* the text names the day, or the minute, of t and is never empty.
formatDate(t) == <<t \div 86400000>>
formatDateTime(t) == <<t \div 60000>>

\* -------------------------------------------------------- the enrichment

\* The logins of the model; every pull request is alice's.
Users == {"alice", "bob"}

\* labels, lines 65-67: the names of the labels, the falsy ones dropped (a
\* label without a name has the name "" here: !!label drops both).
labelsOf(pull) ==
    LET names == [i \in 1..Len(pull.labels) |-> pull.labels[i].name]
        Truthy(n) == n # ""
    IN  SelectSeq(names, Truthy)

\* reviewRequestedAt, lines 69-71: created_at of the first 'review_requested'
\* event in returned order.
reviewRequestedAtOf(events) ==
    LET hits == {i \in DOMAIN events : events[i].event = "review_requested"}
    IN  IF hits = {} THEN Undef ELSE events[SetMin(hits)].created_at

\* The array that line 79 sorts: the times of the comments and then of the
\* reviews whose login is not the pull request's (lines 72-78).
responseTimes(user, comments, reviews) ==
    LET NotAuthorC(c) == c.user # user
        NotAuthorR(r) == r.user # user
        cs == SelectSeq(comments, NotAuthorC)
        rs == SelectSeq(reviews, NotAuthorR)
    IN  [i \in 1..Len(cs) |-> getTime(cs[i].created_at)]
            \o [i \in 1..Len(rs) |-> getTime(rs[i].submitted_at)]

\* The values element [0] can have after line 79's sort. The comparator
\* subtracts getTime()s: over valid dates it is consistent and [0] is the
\* earliest. With an invalid Date among them it returns NaN, it is not a
\* consistent comparator and the order is implementation-defined (ECMA-262,
\* Array.prototype.sort): any element may come first. Undef for an empty array.
firstAfterSort(dates) ==
    IF dates = <<>> THEN {Undef}
    ELSE IF NaN \in Range(dates) THEN Range(dates)
    ELSE {SetMin(Range(dates))}

\* reviewStartedAt, lines 81-86.
reviewStartedAtOrEqual(reviewRequestedAt, firstCommentedAt, created_at) ==
    IF /\ reviewRequestedAt # Undef
       /\ ~Gt(getTime(reviewRequestedAt), getTime(firstCommentedAt))
       /\ getTime(firstCommentedAt) # NaN
    THEN reviewRequestedAt
    ELSE created_at

reviewStartedAtOf(reviewRequestedAt, firstCommentedAt, created_at) ==
    IF /\ reviewRequestedAt # Undef
       /\ Lt(getTime(reviewRequestedAt), getTime(firstCommentedAt))
    THEN reviewRequestedAt
    ELSE created_at

\* approvedAt, lines 87-88: submitted_at of the first review in returned order
\* whose state is APPROVED.
approvedAtOf(reviews) ==
    LET hits == {i \in DOMAIN reviews : reviews[i].state = "APPROVED"}
    IN  IF hits = {} THEN Undef ELSE reviews[SetMin(hits)].submitted_at

\* The local constants of one iteration of the loop of line 45, given the
\* element the sort put first.
localsOf(pull, comments, reviews, events, first) ==
    LET reviewRequestedAt == reviewRequestedAtOf(events)
    IN  [reviewRequestedAt |-> reviewRequestedAt,
         firstCommentedAt |-> first,
         reviewStartedAt |->
             reviewStartedAtOf(reviewRequestedAt, first, pull.created_at),
         approvedAt |-> approvedAtOf(reviews)]

\* approvedLeadTime, lines 102-107.
approvedLeadTimeOf(l) ==
    IF l.approvedAt # Undef
    THEN getLeadTimeMinutes(getTime(l.reviewStartedAt), getTime(l.approvedAt))
    ELSE NaN

\* The Result of lines 114-126.
resultOf(pull, l) ==
    [title |-> pull.title,
     labels |-> labelsOf(pull),
     createdDate |-> formatDate(pull.created_at),
     reviewRequestedDate |->
         IF l.reviewRequestedAt # Undef
         THEN formatDateTime(l.reviewRequestedAt) ELSE <<>>,
     firstCommentedAt |-> l.firstCommentedAt,
     firstCommentLeadTime |->
         getLeadTimeMinutes(getTime(l.reviewStartedAt),
                            getTime(l.firstCommentedAt)),
     approvedDateTime |->
         IF l.approvedAt # Undef THEN formatDateTime(l.approvedAt) ELSE <<>>,
     approvedLeadTime |-> approvedLeadTimeOf(l)]

\* 60 * 24 * 2 of line 110.
SlowThreshold == 2880

isSlowOrEqual(firstCommentLeadTime) ==
    firstCommentLeadTime # NaN /\ firstCommentLeadTime >= SlowThreshold

\* The condition of line 110.
isSlow(firstCommentLeadTime) == Gt(firstCommentLeadTime, SlowThreshold)

\* What console.log and console.error print, one record a call.
Line(kind, title, user, text, count, data) ==
    [kind |-> kind, title |-> title, user |-> user, text |-> text,
     count |-> count, data |-> data]

\* Line 111.
flaggedLine(pull, r) ==
    Line("flagged", pull.title, pull.user,
         minToTimeString(r.approvedLeadTime), 0, <<>>)

\* ------------------------------------------------- filter and summary

\* The callback of results.filter, lines 129-136, without toLowerCase.
keepsCaseSensitive(result) ==
    /\ ~startsWith(result.title, ReleasePrefix)
    /\ ExclusionLabel \notin Range(result.labels)
    /\ result.approvedDateTime # <<>>

\* The callback of results.filter, lines 129-136, without its last line.
keepsUnapproved(result) ==
    /\ ~startsWith(toLowerCase(result.title), ReleasePrefix)
    /\ ExclusionLabel \notin Range(result.labels)

\* The callback of results.filter, lines 129-136.
keeps(result) ==
    /\ ~startsWith(toLowerCase(result.title), ReleasePrefix)
    /\ ExclusionLabel \notin Range(result.labels)
    /\ result.approvedDateTime # <<>>

\* Lines 138-141: the two sequences of lead times.
firstCommentLeadTimesOf(filtered) ==
    [i \in 1..Len(filtered) |-> filtered[i].firstCommentLeadTime]

approvedLeadTimesOf(filtered) ==
    [i \in 1..Len(filtered) |-> filtered[i].approvedLeadTime]

\* The summary without the message of line 170.
summaryLinesSilent(filtered) ==
    LET firstCommentLeadTimes == firstCommentLeadTimesOf(filtered)
        approvedLeadTimes == approvedLeadTimesOf(filtered)
    IN  <<Line("header", <<>>, "", NoText, Len(filtered), <<>>)>>
        \o (IF Len(firstCommentLeadTimes) # 0
            THEN <<Line("firstComment", <<>>, "", NoText, 0,
                        firstCommentLeadTimes)>>
            ELSE <<>>)
        \o (IF Len(approvedLeadTimes) # 0
            THEN <<Line("approved", <<>>, "", NoText, 0, approvedLeadTimes)>>
            ELSE <<>>)

\* The console.log calls of lines 138-171 for the filtered records: the header
\* with the count, for each non-empty sequence of lead times a block with its
\* 50th and 90th percentile (the line carries the sequence quantileSeq is given,
\* not the two numbers), and the message when both are empty.
summaryLines(filtered) ==
    LET firstCommentLeadTimes == firstCommentLeadTimesOf(filtered)
        approvedLeadTimes == approvedLeadTimesOf(filtered)
    IN  <<Line("header", <<>>, "", NoText, Len(filtered), <<>>)>>
        \o (IF Len(firstCommentLeadTimes) # 0
            THEN <<Line("firstComment", <<>>, "", NoText, 0,
                        firstCommentLeadTimes)>>
            ELSE <<>>)
        \o (IF Len(approvedLeadTimes) # 0
            THEN <<Line("approved", <<>>, "", NoText, 0, approvedLeadTimes)>>
            ELSE <<>>)
        \o (IF Len(firstCommentLeadTimes) = 0 /\ Len(approvedLeadTimes) = 0
            THEN <<Line("noResults", <<>>, "", NoText, 0, <<>>)>>
            ELSE <<>>)

\* ------------------------------------------------------- the environment

\* The three requests of lines 49-63.
Kinds == {"comments", "reviews", "events"}

NoResp == [comments |-> <<>>, reviews |-> <<>>, events |-> <<>>]

NoLocals ==
    [reviewRequestedAt |-> Undef, firstCommentedAt |-> Undef,
     reviewStartedAt |-> Undef, approvedAt |-> Undef]

\* "Release 1.2", "fix" and "prerelease".
TitleRelease == <<"R", "e", "l", "e", "a", "s", "e", " ", "1", ".", "2">>
TitleFix == <<"f", "i", "x">>
TitlePre == <<"p", "r", "e", "r", "e", "l", "e", "a", "s", "e">>

\* The pull requests a search page can hold in Spec, all created at time 0.
PullKinds ==
    [user : {"alice"}, title : {TitleRelease, TitleFix},
     labels : {<<>>, <<[name |-> "bug"], [name |-> ExclusionLabel]>>},
     created_at : {0}]
        \cup {[user |-> "alice", title |-> TitlePre, labels |-> <<>>,
                created_at |-> 0]}

\* The answers to the three requests in Spec. 172800000 ms are 2880 minutes.
Responses(kind) ==
    CASE kind = "comments" ->
           {<<>>,
            <<[user |-> "bob", created_at |-> 172800000]>>,
            <<[user |-> "bob", created_at |-> 172830000]>>}
      [] kind = "reviews" ->
           {<<>>,
            <<[user |-> "bob", state |-> "APPROVED",
               submitted_at |-> 172890000]>>}
      [] kind = "events" ->
           {<<>>,
            <<[event |-> "review_requested", created_at |-> 60000]>>}

\* The times, users and items of the pull request of SpecEnrich.
Times == {0, 60000, 150000}
CommentItems == [user : Users, created_at : Times]
\* A submitted review carries submitted_at; a pending one (the API returns the
\* token owner's own) does not, which is what `?? ''` of line 78 is for.
ReviewItems ==
    [user : Users, state : {"APPROVED", "COMMENTED"}, submitted_at : Times]
        \cup [user : Users, state : {"PENDING"}, submitted_at : {Undef}]
EventItems == [event : {"review_requested", "labeled"}, created_at : Times]

\* ----------------------------------------------------------- the steps

Init ==
    /\ pc = "search"
    /\ pulls = <<>>
    /\ idx = 1
    /\ inflight = {}
    /\ resp = NoResp
    /\ rejection = [call |-> "none", pull |-> 0]
    /\ locals = NoLocals
    /\ results = <<>>
    /\ output = <<>>
    /\ errors = <<>>
    /\ exitCode = Undef
    /\ arg = NaN
    /\ shown = NoText

\* One page of the search arrives (lines 32-42): its items are appended, and
\* the iterator asks for the next page or is exhausted. The number of pages is
\* the server's choice.
SearchPage ==
    /\ pc = "search"
    /\ \E items \in SeqUpTo(PullKinds, MaxPulls - Len(pulls)), more \in BOOLEAN :
          /\ pulls' = pulls \o items
          /\ pc' = IF more THEN "search" ELSE "loop"
    /\ UNCHANGED <<idx, inflight, resp, rejection, locals, results, output,
                   errors, exitCode, arg, shown>>

\* The request for a page fails: the iterator throws and main's promise is
\* rejected.
SearchFail ==
    /\ pc = "search"
    /\ pc' = "rejected"
    /\ rejection' = [call |-> "search", pull |-> 0]
    /\ UNCHANGED <<pulls, idx, inflight, resp, locals, results, output,
                   errors, exitCode, arg, shown>>

\* As if the requests of all the remaining pull requests were issued at once.
fetchTargetsAll == idx..Len(pulls)

\* The pull request whose requests one iteration issues (line 45).
fetchTargets == {idx}

\* Lines 45-64: the next iteration calls the three request functions, one after
\* the other without awaiting, and awaits Promise.all of their promises.
IssueFetches ==
    /\ pc = "loop"
    /\ idx <= Len(pulls)
    /\ inflight' = [pull : fetchTargets, kind : Kinds]
    /\ resp' = NoResp
    /\ pc' = "await"
    /\ UNCHANGED <<pulls, idx, rejection, locals, results, output, errors,
                   exitCode, arg, shown>>

\* A request is answered. While Promise.all is pending the answer is kept for
\* the destructuring of line 47; after a rejection nothing reads it.
Complete(req) ==
    /\ req \in inflight
    /\ inflight' = inflight \ {req}
    /\ IF pc = "await"
       THEN \E data \in Responses(req.kind) :
               resp' = [resp EXCEPT ![req.kind] = data]
       ELSE UNCHANGED resp
    /\ UNCHANGED <<pc, pulls, idx, rejection, locals, results, output,
                   errors, exitCode, arg, shown>>

\* A request fails. The first failure rejects Promise.all and so main's
\* promise; the other requests stay in flight, and a later failure is dropped.
Fail(req) ==
    /\ req \in inflight
    /\ inflight' = inflight \ {req}
    /\ IF pc = "await"
       THEN /\ pc' = "rejected"
            /\ rejection' = [call |-> req.kind, pull |-> req.pull]
       ELSE UNCHANGED <<pc, rejection>>
    /\ UNCHANGED <<pulls, idx, resp, locals, results, output, errors,
                   exitCode, arg, shown>>

\* Lines 65-126, once Promise.all has resolved: derive the record, print the
\* line of a slow pull request, append the record.
Enrich ==
    /\ pc = "await"
    /\ inflight = {}
    /\ LET pull == pulls[idx]
       IN  \E first \in firstAfterSort(
                   responseTimes(pull.user, resp.comments, resp.reviews)) :
              LET l == localsOf(pull, resp.comments, resp.reviews,
                                resp.events, first)
                  r == resultOf(pull, l)
              IN  /\ locals' = l
                  /\ results' = Append(results, r)
                  /\ output' = IF isSlow(r.firstCommentLeadTime)
                               THEN Append(output, flaggedLine(pull, r))
                               ELSE output
    /\ idx' = idx + 1
    /\ pc' = "loop"
    /\ UNCHANGED <<pulls, inflight, resp, rejection, errors, exitCode,
                   arg, shown>>

\* Lines 129-172, after the last iteration: filter the records, print the
\* summary; main's promise is fulfilled.
FilterAndReport ==
    /\ pc = "loop"
    /\ idx > Len(pulls)
    /\ results' = SelectSeq(results, keeps)
    /\ output' = output \o summaryLines(results')
    /\ pc' = "resolved"
    /\ UNCHANGED <<pulls, idx, inflight, resp, rejection, locals, errors,
                   exitCode, arg, shown>>

\* The handler without its console.error.
CatchErrorSilent ==
    /\ pc = "rejected"
    /\ pc' = "caught"
    /\ UNCHANGED <<pulls, idx, inflight, resp, rejection, locals, results,
                   output, errors, exitCode, arg, shown>>

\* Line 174: the handler of main's rejection logs the error and returns.
CatchError ==
    /\ pc = "rejected"
    /\ errors' = Append(errors, rejection)
    /\ pc' = "caught"
    /\ UNCHANGED <<pulls, idx, inflight, resp, rejection, locals, results,
                   output, exitCode, arg, shown>>

\* The process ends when main's promise is settled and handled and no request
\* is in flight. Nothing sets process.exitCode and the rejection is handled
\* (line 174), so the exit status is 0.
Exit ==
    /\ pc \in {"resolved", "caught"}
    /\ inflight = {}
    /\ exitCode' = 0
    /\ pc' = "exited"
    /\ UNCHANGED <<pulls, idx, inflight, resp, rejection, locals, results,
                   output, errors, arg, shown>>

Next ==
    \/ SearchPage
    \/ SearchFail
    \/ IssueFetches
    \/ \E req \in inflight : Complete(req)
    \/ \E req \in inflight : Fail(req)
    \/ Enrich
    \/ FilterAndReport
    \/ CatchError
    \/ Exit

Spec == Init /\ [][Next]_vars

\* ------------------------------------- one pull request, any answers

\* Promise.all of one pull request has resolved with any comments, reviews and
\* events of at most MaxItems items together.
InitEnrich ==
    /\ pc = "await"
    /\ \E created \in {0, 60000} :
          pulls = <<[user |-> "alice", title |-> TitleFix, labels |-> <<>>,
                     created_at |-> created]>>
    /\ idx = 1
    /\ inflight = {}
    /\ \E c \in SeqUpTo(CommentItems, MaxItems) :
          \E r \in SeqUpTo(ReviewItems, MaxItems - Len(c)) :
             \E e \in SeqUpTo(EventItems, MaxItems - Len(c) - Len(r)) :
                resp = [comments |-> c, reviews |-> r, events |-> e]
    /\ rejection = [call |-> "none", pull |-> 0]
    /\ locals = NoLocals
    /\ results = <<>>
    /\ output = <<>>
    /\ errors = <<>>
    /\ exitCode = Undef
    /\ arg = NaN
    /\ shown = NoText

NextEnrich ==
    \/ Enrich
    \/ FilterAndReport

SpecEnrich == InitEnrich /\ [][NextEnrich]_vars

\* ------------------------------------------------- minToTimeString alone

MinuteValues == (0 - 2 .. MaxMinutes) \cup {NaN}

InitFmt ==
    /\ pc = "fmt"
    /\ pulls = <<>>
    /\ idx = 1
    /\ inflight = {}
    /\ resp = NoResp
    /\ rejection = [call |-> "none", pull |-> 0]
    /\ locals = NoLocals
    /\ results = <<>>
    /\ output = <<>>
    /\ errors = <<>>
    /\ exitCode = Undef
    /\ arg \in MinuteValues
    /\ shown = NoText

\* One call of minToTimeString.
Format ==
    /\ pc = "fmt"
    /\ shown' = minToTimeString(arg)
    /\ pc' = "formatted"
    /\ UNCHANGED <<pulls, idx, inflight, resp, rejection, locals, results,
                   output, errors, exitCode, arg>>

SpecFmt == InitFmt /\ [][Format]_vars

\* ================================================================ claims

\* C1. After the enrichment of a pull request, with T1 the creation time of
\* the first review_requested event (if any) and T2 firstCommentedAt, the
\* review-start time is T1 when T1 exists, T2 is a valid time and T1 < T2
\* strictly, and the creation time of the pull request in every other case.
C1_ReviewStart ==
    idx > 1 =>
        LET events == resp.events
            requested == {i \in DOMAIN events :
                              events[i].event = "review_requested"}
            T1 == events[CHOOSE i \in requested :
                             \A j \in requested : i <= j].created_at
            T2 == locals.firstCommentedAt
            created == pulls[idx - 1].created_at
        IN  IF requested # {} /\ T2 \notin {Undef, NaN} /\ T1 < T2
            THEN locals.reviewStartedAt = T1
            ELSE locals.reviewStartedAt = created

\* C1's case: a review request strictly before the first response, and after
\* the creation, was taken as the start.
C1_Witness ==
    /\ idx > 1
    /\ locals.reviewRequestedAt # Undef
    /\ locals.firstCommentedAt \notin {Undef, NaN}
    /\ locals.reviewRequestedAt < locals.firstCommentedAt
    /\ locals.reviewRequestedAt # pulls[idx - 1].created_at
    /\ locals.reviewStartedAt = locals.reviewRequestedAt

\* C8. After the enrichment of a pull request, firstCommentedAt is the least
\* timestamp among the review comments and the reviews whose login is not the
\* pull request's author, whatever their order, and undefined or invalid when
\* there is no such comment and no such review.
C8_FirstCommentIsMinimum ==
    idx > 1 =>
        LET author == pulls[idx - 1].user
            stamps ==
                {resp.comments[i].created_at :
                     i \in {j \in DOMAIN resp.comments :
                                resp.comments[j].user # author}}
                \cup {resp.reviews[i].submitted_at :
                          i \in {j \in DOMAIN resp.reviews :
                                     resp.reviews[j].user # author}}
            valid == stamps \ {Undef}
        IN  /\ stamps = {} => locals.firstCommentedAt \in {Undef, NaN}
            /\ valid # {} =>
                   /\ locals.firstCommentedAt \in valid
                   /\ \A t \in valid : locals.firstCommentedAt <= t

\* C10. After the enrichment of a pull request none of whose comments, reviews
\* and review-request events is timestamped before its creation and whose
\* first APPROVED review in returned order is not the author's,
\* 0 <= firstCommentLeadTime <= approvedLeadTime.
C10_LeadTimesOrdered ==
    (idx > 1 /\ pc = "loop") =>
        LET pull == pulls[idx - 1]
            r == results[idx - 1]
            approvals == {i \in DOMAIN resp.reviews :
                              resp.reviews[i].state = "APPROVED"}
            firstApproval == CHOOSE i \in approvals : \A j \in approvals : i <= j
            noneEarlier ==
                /\ \A i \in DOMAIN resp.comments :
                       resp.comments[i].created_at >= pull.created_at
                /\ \A i \in DOMAIN resp.reviews :
                       resp.reviews[i].submitted_at # Undef =>
                           resp.reviews[i].submitted_at >= pull.created_at
                /\ \A i \in DOMAIN resp.events :
                       resp.events[i].event = "review_requested" =>
                           resp.events[i].created_at >= pull.created_at
        IN  (/\ noneEarlier
             /\ approvals # {}
             /\ resp.reviews[firstApproval].user # pull.user)
            => /\ r.firstCommentLeadTime # NaN
               /\ r.approvedLeadTime # NaN
               /\ 0 <= r.firstCommentLeadTime
               /\ r.firstCommentLeadTime <= r.approvedLeadTime

\* C5. minToTimeString gives a days text exactly for m > 1440, an hours text
\* exactly for 60 < m <= 1440 and a minutes text otherwise, NaN and the
\* boundary values 60 and 1440 included.
C5_Units ==
    pc = "formatted" =>
        /\ shown.unit \in {"days", "hours", "minutes"}
        /\ shown.unit = "days" <=> (arg # NaN /\ arg > 1440)
        /\ shown.unit = "hours" <=> (arg # NaN /\ 60 < arg /\ arg <= 1440)
        /\ shown.unit = "minutes" <=> (arg = NaN \/ arg <= 60)

\* C5's case: the boundary 1440 has been formatted, as hours.
C5_Witness ==
    pc = "formatted" /\ arg = 1440 /\ shown.unit = "hours"

\* C2. The filter step keeps, in their order, exactly the records whose title
\* does not start with 'release' in any letter case, whose labels do not hold
\* the exclusion label and whose approval text is not empty.
C2_Filter ==
    [][(pc = "loop" /\ pc' = "resolved") =>
          LET ReleaseTitle(t) ==
                  /\ Len(t) >= 7
                  /\ t[1] \in {"r", "R"} /\ t[2] \in {"e", "E"}
                  /\ t[3] \in {"l", "L"} /\ t[4] \in {"e", "E"}
                  /\ t[5] \in {"a", "A"} /\ t[6] \in {"s", "S"}
                  /\ t[7] \in {"e", "E"}
              Retained(r) ==
                  /\ ~ReleaseTitle(r.title)
                  /\ \A i \in DOMAIN r.labels : r.labels[i] # ExclusionLabel
                  /\ Len(r.approvedDateTime) > 0
          IN  results' = SelectSeq(results, Retained)]_vars

\* C2's case: of two records the filter has dropped one and kept the other.
C2_Witness ==
    pc = "resolved" /\ Len(pulls) = 2 /\ Len(results) = 1

\* C9. The approvedLeadTime of a record is NaN exactly when its approval text
\* is empty, which is when no APPROVED review carries a submission time; so
\* after the filter step no record has a NaN approvedLeadTime and none is in
\* the sequence the percentiles are computed from.
C9_NoSentinel ==
    /\ \A i \in DOMAIN results :
           results[i].approvedLeadTime = NaN
               <=> results[i].approvedDateTime = <<>>
    /\ (pc = "loop" /\ idx > 1) =>
           (results[idx - 1].approvedDateTime = <<>>
                <=> ~\E i \in DOMAIN resp.reviews :
                        /\ resp.reviews[i].state = "APPROVED"
                        /\ resp.reviews[i].submitted_at # Undef)
    /\ pc = "resolved" =>
           /\ \A i \in DOMAIN results : results[i].approvedLeadTime # NaN
           /\ \A i \in DOMAIN output :
                  output[i].kind = "approved" =>
                      (\A j \in DOMAIN output[i].data : output[i].data[j] # NaN)

\* C9's case: an approved record has passed the filter and its lead time is in
\* the sequence of the approval percentiles.
C9_Witness ==
    /\ pc = "resolved"
    /\ Len(results) = 1
    /\ \E i \in DOMAIN output :
           output[i].kind = "approved"
               /\ output[i].data = <<results[1].approvedLeadTime>>

\* C3 as claimed. When the search returned no pull request, the whole output
\* of the completed run is the 'no results' message.
C3_OnlyNoResults ==
    (pc = "resolved" /\ pulls = <<>>) =>
        (Len(output) = 1 /\ output[1].kind = "noResults")

\* C3 as amended. When the search returned no pull request, the output of the
\* completed run is the summary header with the count 0 and then the 'no
\* results' message: no percentile block, no flagged line, nothing else.
C3_HeaderThenNoResults ==
    (pc = "resolved" /\ pulls = <<>>) =>
        /\ Len(output) = 2
        /\ output[1].kind = "header" /\ output[1].count = 0
        /\ output[2].kind = "noResults"

\* C3's case: a run over an empty search result has printed its summary.
C3_Witness ==
    pc = "resolved" /\ pulls = <<>> /\ Len(output) = 2

C6_FailureExitsNonZero ==
    pc = "exited" =>
        LET summary == \E i \in DOMAIN output : output[i].kind = "header"
        IN  \/ (rejection.call = "none" /\ errors = <<>> /\ summary
                    /\ exitCode = 0)
            \/ (rejection.call # "none" /\ errors = <<rejection>> /\ ~summary
                    /\ exitCode # 0)

\* C6 as amended. A run ends either completed, with the summary printed and
\* nothing logged, or with the first failed network call logged once by the
\* top-level handler and no summary; the exit status is 0 in both cases. Once
\* main's promise is settled the process can go on to its exit, and nothing
\* happens after it.
C6_EndsOneOfTwoWays ==
    LET summary == \E i \in DOMAIN output : output[i].kind = "header"
    IN  /\ pc \in {"rejected", "caught", "resolved"} => ENABLED Next
        /\ pc = "exited" => ~ENABLED Next
        /\ pc \in {"rejected", "caught"} => rejection.call # "none"
        /\ pc \in {"search", "loop", "await", "resolved"} =>
               (rejection.call = "none" /\ errors = <<>>)
        /\ pc = "caught" => (errors = <<rejection>> /\ ~summary)
        /\ pc = "exited" =>
               /\ exitCode = 0
               /\ inflight = {}
               /\ \/ (rejection.call = "none" /\ errors = <<>> /\ summary)
                  \/ (rejection.call # "none" /\ errors = <<rejection>>
                          /\ ~summary)

\* C6's case: the run has ended after a request of the second pull request
\* failed.
C6_Witness ==
    /\ pc = "exited"
    /\ rejection.call = "reviews" /\ rejection.pull = 2
    /\ errors = <<rejection>>

\* C7. The requests in flight all belong to the pull request of the current
\* iteration; requests are issued three at a time, for one pull request, when
\* none is in flight, the records of all earlier pull requests are appended and
\* the search is exhausted, which it stays; a record is appended only when
\* none of the three is in flight any more and none has failed.
C7_OnePullAtATime ==
    /\ [](\A req \in inflight : req.pull = idx)
    /\ [](pc = "search" => inflight = {})
    /\ [][/\ ~(inflight' \subseteq inflight) =>
                 /\ inflight = {}
                 /\ pc = "loop"
                 /\ Len(results) = idx - 1
                 /\ inflight' = {[pull |-> idx, kind |-> k] : k \in Kinds}
          /\ pc # "search" => pc' # "search"
          /\ Len(results') = Len(results) + 1 =>
                 (pc = "await" /\ inflight = {} /\ rejection.call = "none")
         ]_vars

\* C7's case: the record of the first pull request is appended and one request
\* of the second is still in flight.
C7_Witness ==
    /\ idx = 2
    /\ Len(results) = 1
    /\ Cardinality(inflight) = 1
    /\ pc = "await"

====
